---- MODULE Spec2Model ----
(***************************************************************************)
(* log-strip: the detection and removal engine of src/src/index.ts         *)
(* (buildPatterns, findMatches, removeStatements).                         *)
(*                                                                         *)
(* Text is a sequence of tokens.  A token is a chunk of characters of one  *)
(* class: a whitespace character, a punctuation character, the newline, or *)
(* a chunk of word characters (\w).  The text a sequence stands for is the *)
(* concatenation of its tokens, so two adjacent word chunks form ONE word  *)
(* ("time","End" is timeEnd; "x","console" is xconsole) and there is a     *)
(* word boundary (\b) only between a word chunk and a non-word token or    *)
(* the end of the text.  Every regular expression of the source is an      *)
(* operator over such sequences that matches as the JavaScript engine      *)
(* does (leftmost, greedy, the g flag advancing past each match).          *)
(***************************************************************************)
EXTENDS Integers, Sequences, FiniteSets, TLC

VARIABLES content, keep, pc, matches, fixed, refixed

vars == <<content, keep, pc, matches, fixed, refixed>>

\* ---------------------------------------------------------------- text ----

NL == "\n"

Space == {" ", "\t"}

Punct == {".", "(", ")", ";", "/", "*", ",", "="}

IsSpace(t) == t \in Space

IsWord(t) == t \notin Space /\ t \notin Punct /\ t # NL

\* s.slice(a - 1, b): the tokens a..b of s (empty when b < a).
Slice(s, a, b) == IF b < a THEN <<>> ELSE SubSeq(s, a, b)

RECURSIVE Concat(_)
\* The word a run of word chunks stands for.
Concat(ws) == IF ws = <<>> THEN "" ELSE Head(ws) \o Concat(Tail(ws))

RECURSIVE Chars(_)
\* Number of characters of a token sequence (String.length).
Chars(s) == IF s = <<>> THEN 0 ELSE Len(Head(s)) + Chars(Tail(s))

RECURSIVE TrimStart(_)
TrimStart(s) == IF s # <<>> /\ IsSpace(Head(s)) THEN TrimStart(Tail(s)) ELSE s

RECURSIVE TrimEnd(_)
TrimEnd(s) ==
    IF s # <<>> /\ IsSpace(s[Len(s)]) THEN TrimEnd(SubSeq(s, 1, Len(s) - 1)) ELSE s

\* String.prototype.trim
Trim(s) == TrimEnd(TrimStart(s))

\* s.startsWith(p)
StartsWith(s, p) == Len(s) >= Len(p) /\ SubSeq(s, 1, Len(p)) = p

RECURSIVE Split(_)
\* content.split("\n"): always at least one line; "" splits into [""].
Split(s) ==
    IF \A i \in 1..Len(s) : s[i] # NL
    THEN <<s>>
    ELSE LET n == CHOOSE i \in 1..Len(s) : s[i] = NL /\ \A j \in 1..(i - 1) : s[j] # NL
         IN  <<Slice(s, 1, n - 1)>> \o Split(Slice(s, n + 1, Len(s)))

RECURSIVE Join(_)
\* lines.join("\n"): no lines join to "".
Join(ls) ==
    IF ls = <<>> THEN <<>>
    ELSE IF Len(ls) = 1 THEN ls[1]
    ELSE ls[1] \o <<NL>> \o Join(Tail(ls))

\* Number of tokens t in s: (s.match(/t/g) || []).length for a one-character t.
Count(s, t) == Cardinality({i \in 1..Len(s) : s[i] = t})

\* ------------------------------------------------- regular expressions ----

\* \b before position i of s.
WordStart(s, i) == i \in 1..Len(s) /\ IsWord(s[i]) /\ (i = 1 \/ ~IsWord(s[i - 1]))

\* \b after position i of s.
WordEnd(s, i) == i \in 1..Len(s) /\ IsWord(s[i]) /\ (i = Len(s) \/ ~IsWord(s[i + 1]))

RECURSIVE SkipSpace(_, _)
\* \s* from position i: the first position at or after i that is no whitespace.
SkipSpace(s, i) == IF i <= Len(s) /\ IsSpace(s[i]) THEN SkipSpace(s, i + 1) ELSE i

RECURSIVE WordRunEnd(_, _)
\* \w+ from position i: the last position of the run of word chunks starting at i
\* (i - 1 when s[i] is no word chunk).
WordRunEnd(s, i) == IF i <= Len(s) /\ IsWord(s[i]) THEN WordRunEnd(s, i + 1) ELSE i - 1

At(s, i, t) == i <= Len(s) /\ s[i] = t

\* Is string m one of the strings of sequence ms.
Includes(ms, m) == \E k \in 1..Len(ms) : ms[k] = m

\* /\bconsole\s*\.\s*(?:m1|m2|...)\s*\(/ tried at position i: the position after
\* the match, 0 when it does not match there.  An alternative m matches when the
\* chunks from the method position on spell m; it is accepted when \s*\( follows.
ConsoleAt(methods, s, i) ==
    IF ~(WordStart(s, i) /\ s[i] = "console") THEN 0
    ELSE LET dot == SkipSpace(s, i + 1) IN
         IF ~At(s, dot, ".") THEN 0
         ELSE LET m == SkipSpace(s, dot + 1)
                  ends == {q \in m..WordRunEnd(s, m) :
                              /\ Includes(methods, Concat(Slice(s, m, q)))
                              /\ At(s, SkipSpace(s, q + 1), "(")}
              IN  IF ends = {} THEN 0
                  ELSE SkipSpace(s, (CHOOSE q \in ends : TRUE) + 1) + 1

\* /\bdebugger\b\s*;?/ tried at position i.
DebuggerAt(s, i) ==
    IF ~(WordStart(s, i) /\ s[i] = "debugger" /\ WordEnd(s, i)) THEN 0
    ELSE LET j == SkipSpace(s, i + 1) IN IF At(s, j, ";") THEN j + 1 ELSE j

\* /\balert\s*\(/ tried at position i.
AlertAt(s, i) ==
    IF ~(WordStart(s, i) /\ s[i] = "alert") THEN 0
    ELSE LET j == SkipSpace(s, i + 1) IN IF At(s, j, "(") THEN j + 1 ELSE 0

\* A compiled pattern of the PatternSet tried at position i.
MatchAt(p, s, i) ==
    CASE p.re = "console"  -> ConsoleAt(p.methods, s, i)
      [] p.re = "debugger" -> DebuggerAt(s, i)
      [] p.re = "alert"    -> AlertAt(s, i)

RECURSIVE ExecAll(_, _, _)
\* The loop `while ((match = pattern.exec(line)) !== null)` from lastIndex = from:
\* the matches <<index, end>> left to right, each search resuming after the last.
ExecAll(p, s, from) ==
    LET hits == {i \in from..Len(s) : MatchAt(p, s, i) # 0} IN
    IF hits = {} THEN <<>>
    ELSE LET i == CHOOSE h \in hits : \A g \in hits : h <= g
             e == MatchAt(p, s, i)
         IN  <<[index |-> i, end |-> e]>> \o ExecAll(p, s, e)

\* pattern.lastIndex = 0; pattern.test(s)
Test(p, s) == \E i \in 1..Len(s) : MatchAt(p, s, i) # 0

\* ------------------------------------------------------ buildPatterns ----

CONSOLE_METHODS ==
    << "log", "debug", "info", "warn", "error", "trace", "table", "dir",
       "time", "timeEnd", "timeLog", "count", "countReset",
       "group", "groupEnd", "groupCollapsed", "clear", "assert",
       "profile", "profileEnd" >>

\* buildPatterns with the keep filter forgotten: every console method is matched.
buildPatterns_IgnoreKeep(k) ==
    <<[re |-> "console", methods |-> CONSOLE_METHODS]>>
    \o <<[re |-> "debugger", methods |-> <<>>]>>
    \o <<[re |-> "alert", methods |-> <<>>]>>

\* buildPatterns with the keep filter inverted: the kept methods are the matched.
buildPatterns_KeptOnly(k) ==
    LET Kept(m) == m \in k
        methods == SelectSeq(CONSOLE_METHODS, Kept)
    IN  (IF Len(methods) > 0 THEN <<[re |-> "console", methods |-> methods]>> ELSE <<>>)
        \o <<[re |-> "debugger", methods |-> <<>>]>>
        \o <<[re |-> "alert", methods |-> <<>>]>>

\* buildPatterns(keep): the console matcher over the methods that are not kept
\* (left out when none remains), then the debugger and the alert matchers.
buildPatterns(k) ==
    LET NotKept(m) == m \notin k
        methods == SelectSeq(CONSOLE_METHODS, NotKept)
    IN  (IF Len(methods) > 0 THEN <<[re |-> "console", methods |-> methods]>> ELSE <<>>)
        \o <<[re |-> "debugger", methods |-> <<>>]>>
        \o <<[re |-> "alert", methods |-> <<>>]>>

\* -------------------------------------------------------- findMatches ----

\* The comment test without the case of a block comment's continuation line.
IsCommented_NoStar(line) ==
    LET trimmed == Trim(line) IN
    \/ StartsWith(trimmed, <<"/", "/">>)
    \/ StartsWith(trimmed, <<"/", "*">>)

\* The comment test applied to the line as it is, indentation included.
IsCommented_Untrimmed(line) ==
    \/ StartsWith(line, <<"/", "/">>)
    \/ StartsWith(line, <<"/", "*">>)
    \/ StartsWith(line, <<"*">>)

\* The comment test both functions apply to a line: its trimmed text starts
\* with //, with /* or with *.
IsCommented(line) ==
    LET trimmed == Trim(line) IN
    \/ StartsWith(trimmed, <<"/", "/">>)
    \/ StartsWith(trimmed, <<"/", "*">>)
    \/ StartsWith(trimmed, <<"*">>)

\* matchStr.includes(w) for the words the classifier looks for: the text
\* contains the chunk w, followed by the tokens of `next`.
IncludesText(s, w, next) ==
    \E i \in 1..Len(s) : s[i] = w /\ StartsWith(Slice(s, i + 1, Len(s)), next)

\* matchStr.match(/console\s*\.\s*(\w+)/)?.[1] || "log"
MethodOf(s) ==
    LET Hit(i) == /\ s[i] = "console"
                  /\ At(s, SkipSpace(s, i + 1), ".")
                  /\ WordRunEnd(s, SkipSpace(s, SkipSpace(s, i + 1) + 1))
                        >= SkipSpace(s, SkipSpace(s, i + 1) + 1)
        hits == {i \in 1..Len(s) : Hit(i)}
    IN  IF hits = {} THEN "log"
        ELSE LET i == CHOOSE h \in hits : \A g \in hits : h <= g
                 m == SkipSpace(s, SkipSpace(s, i + 1) + 1)
             IN  Concat(Slice(s, m, WordRunEnd(s, m)))

\* The type findMatches gives to the matched text.
TypeOf(matchStr) ==
    IF IncludesText(matchStr, "console", <<".">>) THEN "console." \o MethodOf(matchStr)
    ELSE IF IncludesText(matchStr, "debugger", <<>>) THEN "debugger"
    ELSE IF IncludesText(matchStr, "alert", <<>>) THEN "alert"
    ELSE "unknown"

\* The Match records one pattern pushes for one line.
PatternMatches(p, line, lineIdx) ==
    LET ms == ExecAll(p, line, 1) IN
    [k \in 1..Len(ms) |->
        [line    |-> lineIdx,
         column  |-> Chars(Slice(line, 1, ms[k].index - 1)) + 1,
         type    |-> TypeOf(Slice(line, ms[k].index, ms[k].end - 1)),
         content |-> Trim(line)]]

RECURSIVE LineMatches(_, _, _, _)
\* `for (const pattern of patterns)` on one line, from pattern k on.
LineMatches(patterns, line, lineIdx, k) ==
    IF k > Len(patterns) THEN <<>>
    ELSE PatternMatches(patterns[k], line, lineIdx)
         \o LineMatches(patterns, line, lineIdx, k + 1)

RECURSIVE ScanLines(_, _, _)
\* The loop over the lines of findMatches, from line lineIdx on.
ScanLines(lines, patterns, lineIdx) ==
    IF lineIdx > Len(lines) THEN <<>>
    ELSE (IF IsCommented(lines[lineIdx]) THEN <<>>
          ELSE LineMatches(patterns, lines[lineIdx], lineIdx, 1))
         \o ScanLines(lines, patterns, lineIdx + 1)

findMatches(c, patterns) == ScanLines(Split(c), patterns, 1)

\* --------------------------------------------------- removeStatements ----

\* The first ")" after position i of s, 0 when there is none: where \([^)]*\)
\* ends once its "(" matched at position i.
CloseAfter(s, i) ==
    LET cs == {j \in (i + 1)..Len(s) : s[j] = ")"} IN
    IF cs = {} THEN 0 ELSE CHOOSE j \in cs : \A g \in cs : j <= g

\* \s*;?\s* from position i: the position after it.
Terminator(s, i) ==
    LET j == SkipSpace(s, i) IN
    IF At(s, j, ";") THEN SkipSpace(s, j + 1) ELSE j

\* /\bconsole\s*\.\s*\w+\s*\([^)]*\)\s*;?\s*/ tried at position i.
StripConsoleAt(s, i) ==
    IF ~(WordStart(s, i) /\ s[i] = "console") THEN 0
    ELSE LET dot  == SkipSpace(s, i + 1)
             m    == SkipSpace(s, dot + 1)
             open == SkipSpace(s, WordRunEnd(s, m) + 1)
         IN  IF /\ At(s, dot, ".")
                /\ WordRunEnd(s, m) >= m
                /\ At(s, open, "(")
                /\ CloseAfter(s, open) # 0
             THEN Terminator(s, CloseAfter(s, open) + 1)
             ELSE 0

\* /\bdebugger\b\s*;?\s*/ tried at position i.
StripDebuggerAt(s, i) ==
    IF ~(WordStart(s, i) /\ s[i] = "debugger" /\ WordEnd(s, i)) THEN 0
    ELSE Terminator(s, i + 1)

\* /\balert\s*\([^)]*\)\s*;?\s*/ tried at position i.
StripAlertAt(s, i) ==
    IF ~(WordStart(s, i) /\ s[i] = "alert") THEN 0
    ELSE LET open == SkipSpace(s, i + 1) IN
         IF At(s, open, "(") /\ CloseAfter(s, open) # 0
         THEN Terminator(s, CloseAfter(s, open) + 1)
         ELSE 0

StripAt(re, s, i) ==
    CASE re = "console"  -> StripConsoleAt(s, i)
      [] re = "debugger" -> StripDebuggerAt(s, i)
      [] re = "alert"    -> StripAlertAt(s, i)

RECURSIVE Replace(_, _, _)
\* s.replace(/re/g, "") from position i on: every match, left to right, is left
\* out; the boundaries are those of the text s itself.
Replace(re, s, i) ==
    IF i > Len(s) THEN <<>>
    ELSE IF StripAt(re, s, i) # 0 THEN Replace(re, s, StripAt(re, s, i))
    ELSE <<s[i]>> \o Replace(re, s, i + 1)

\* `cleaned`: the trimmed line without its console calls, debugger statements
\* and alert calls.
Cleaned(trimmed) ==
    Trim(Replace("alert", Replace("debugger", Replace("console", trimmed, 1), 1), 1))

\* patterns.some(p => p.test(trimmed))
SomeTest(patterns, trimmed) == \E k \in 1..Len(patterns) : Test(patterns[k], trimmed)

RECURSIVE SkipToClose(_, _, _)
\* `while (depth > 0 && i + 1 < lines.length)`: the index of the last line the
\* loop consumes, entered at line i with the given depth.
SkipToClose(lines, i, depth) ==
    IF depth > 0 /\ i + 1 <= Len(lines)
    THEN SkipToClose(lines, i + 1,
                     depth + Count(lines[i + 1], "(") - Count(lines[i + 1], ")"))
    ELSE i

\* The index of the last line the statement starting at line i takes with it:
\* i itself, or the end of its multi-line argument list and the lone ";" after.
LastConsumed(lines, i) ==
    LET openParens  == Count(lines[i], "(")
        closeParens == Count(lines[i], ")")
    IN  IF openParens > closeParens
        THEN LET j == SkipToClose(lines, i, openParens - closeParens) IN
             IF j + 1 <= Len(lines) /\ Trim(lines[j + 1]) = <<";">> THEN j + 1 ELSE j
        ELSE i

\* Is the line just debug statements: some pattern matches and nothing is left
\* of it once they are stripped.
OnlyStatement(patterns, trimmed) ==
    SomeTest(patterns, trimmed) /\ Cleaned(trimmed) = <<>>

RECURSIVE KeptFrom(_, _, _)
\* The main loop of removeStatements from line i on: the indices of the lines it
\* pushes to `result`.
KeptFrom(lines, patterns, i) ==
    IF i > Len(lines) THEN <<>>
    ELSE IF IsCommented(lines[i]) THEN <<i>> \o KeptFrom(lines, patterns, i + 1)
    ELSE IF OnlyStatement(patterns, Trim(lines[i])) THEN KeptFrom(lines, patterns, i + 1)
    ELSE IF SomeTest(patterns, Trim(lines[i]))
         THEN KeptFrom(lines, patterns, LastConsumed(lines, i) + 1)
    ELSE <<i>> \o KeptFrom(lines, patterns, i + 1)

\* Is a line blank: line.trim() === "".
IsBlank(line) == Trim(line) = <<>>

\* The second loop leaving a blank line out only when two blank lines precede it.
FinalOf_ThreeRun(result) ==
    SelectSeq([k \in 1..Len(result) |-> k],
              LAMBDA k : ~(k > 2 /\ IsBlank(result[k]) /\ IsBlank(result[k - 1])
                                 /\ IsBlank(result[k - 2])))

\* The second loop: a blank line that follows a blank line of `result` is left out.
\* Gives the positions of `result` that go to `final`.
FinalOf(result) ==
    SelectSeq([k \in 1..Len(result) |-> k],
              LAMBDA k : ~(k > 1 /\ IsBlank(result[k]) /\ IsBlank(result[k - 1])))

\* The indices of the lines of `lines` that removeStatements keeps, in order.
FinalIdx(lines, patterns) ==
    LET kept   == KeptFrom(lines, patterns, 1)
        result == [k \in 1..Len(kept) |-> lines[kept[k]]]
        pos    == FinalOf(result)
    IN  [k \in 1..Len(pos) |-> kept[pos[k]]]

\* `final` with the kept lines pushed trimmed.
FinalLines_Trimmed(lines, patterns) ==
    LET idx == FinalIdx(lines, patterns) IN [k \in 1..Len(idx) |-> Trim(lines[idx[k]])]

\* `final`: the lines removeStatements joins.
FinalLines(lines, patterns) ==
    LET idx == FinalIdx(lines, patterns) IN [k \in 1..Len(idx) |-> lines[idx[k]]]

\* removeStatements ending its result with a newline.
removeStatements_TrailingNewline(c, patterns) ==
    Join(FinalLines(Split(c), patterns)) \o <<NL>>

removeStatements(c, patterns) == Join(FinalLines(Split(c), patterns))

\* ------------------------------------------------------------- inputs ----

\* Longest file content, in lines.
MaxLines == 3

\* The lines file contents are made of.
Pool ==
    { <<"console", ".", "error", "(", "x", ")", ";">>,
      <<"console", ".", " ", "log", " ", "(">>,
      <<" ", "x", ")">>,
      <<";">>,
      <<>>,
      <<" ", " ">>,
      <<"/", "/", " ", "console", ".", "log", "(", "x", ")">>,
      <<" ", "*", " ", "alert", "(", ")">>,
      <<"console", ".", "error", "(", "x", ")", ";", " ", "debugger", ";">>,
      <<"debugger", ";", "console", ".", "time", "End", "(", ")">>,
      <<"console", " ", ".", "log", "(", "keep", "(", ")">>,
      <<"keep", "(", ")", ";">>,
      <<"/", "*", " ", "debugger", " ", "*", "/">>,
      <<"my", "console", ".", "log", "(", "x", ")", ";">>,
      <<"x", "=", "console", ".", "log", "(", ")", ";", "\t", "console", ".", "warn", "(", ")">>,
      <<" ", " ", "alert", "(", "x", ")", ";", "console", ".", "time", "(", ")">> }

\* The keep lists of a run (--keep).
KeepSets ==
    { {}, {"error", "time"}, {"timeEnd"},
      {CONSOLE_METHODS[k] : k \in 1..Len(CONSOLE_METHODS)} }

Contents == UNION {[1..n -> Pool] : n \in 1..MaxLines}

\* The value of a result that is not computed yet.
None == <<"?">>

\* ------------------------------------------------------ state machine ----

Init ==
    /\ \E ls \in Contents : content = Join(ls)
    /\ keep \in KeepSets
    /\ pc = "start"
    /\ matches = <<>>
    /\ fixed = None
    /\ refixed = None

\* findMatches(content, buildPatterns(keep))
Scan ==
    /\ pc = "start"
    /\ matches' = findMatches(content, buildPatterns(keep))
    /\ pc' = "scanned"
    /\ UNCHANGED <<content, keep, fixed, refixed>>

\* removeStatements(content, buildPatterns(keep)).  main calls it only for a file
\* with matches and --fix; the function is defined on every content, and it is
\* applied to every content here.
Fix ==
    /\ pc = "scanned"
    /\ fixed' = removeStatements(content, buildPatterns(keep))
    /\ pc' = "fixed"
    /\ UNCHANGED <<content, keep, matches, refixed>>

\* removeStatements again, on its own output.
Refix ==
    /\ pc = "fixed"
    /\ refixed' = removeStatements(fixed, buildPatterns(keep))
    /\ pc' = "refixed"
    /\ UNCHANGED <<content, keep, matches, fixed>>

Next == Scan \/ Fix \/ Refix

Spec == Init /\ [][Next]_vars

\* ------------------------------------------------------------- claims ----

Lines == Split(content)

\* The lines of a text, the empty text having none.
OutLines(s) == IF s = <<>> THEN <<>> ELSE Split(s)

RECURSIVE IsSubseq(_, _)
\* a is an order-preserving subsequence of b.
IsSubseq(a, b) ==
    IF a = <<>> THEN TRUE
    ELSE IF b = <<>> THEN FALSE
    ELSE IF Head(a) = Head(b) THEN IsSubseq(Tail(a), Tail(b))
    ELSE IsSubseq(a, Tail(b))

\* The Comment Gate as the specification words it.
CommentedLine(line) ==
    LET t == Trim(line) IN
    \/ (Len(t) >= 2 /\ t[1] = "/" /\ t[2] \in {"/", "*"})
    \/ (Len(t) >= 1 /\ t[1] = "*")

\* The console methods of the vocabulary that satisfy Want.
Methods(Want(_)) == SelectSeq(CONSOLE_METHODS, Want)

\* The line holds a call console.M( of a kept method M.
KeptCall(line) ==
    \E i \in 1..Len(line) : ConsoleAt(Methods(LAMBDA m : m \in keep), line, i) # 0

\* The line holds a debug statement the keep list does not cover: debugger,
\* alert( or console.m( for a method m that is not kept.
DebugLine(line) ==
    \E i \in 1..Len(line) :
        \/ DebuggerAt(line, i) # 0
        \/ AlertAt(line, i) # 0
        \/ ConsoleAt(Methods(LAMBDA m : m \notin keep), line, i) # 0

\* Some live line before line i holds a debug statement and leaves a parenthesis
\* open: line i may be part of its argument list.
OpenBefore(i) ==
    \E j \in 1..(i - 1) :
        /\ ~CommentedLine(Lines[j])
        /\ DebugLine(Lines[j])
        /\ Count(Lines[j], "(") > Count(Lines[j], ")")

\* The lines of the content whose index satisfies Want, in order.
LinesWhere(Want(_)) ==
    LET idx == SelectSeq([k \in 1..Len(Lines) |-> k], Want)
    IN  [k \in 1..Len(idx) |-> Lines[idx[k]]]

\* C1: removeStatements is idempotent: applied to its own output with the same
\* patterns it returns that output unchanged.
C1_Idempotent == pc = "refixed" => refixed = fixed

\* A run in which the first pass removed lines and left some.
C1_Witness ==
    /\ pc = "refixed"
    /\ fixed # content
    /\ fixed # <<>>
    /\ refixed = fixed

RECURSIVE Depth(_, _, _)
\* Opening minus closing parentheses of lines i..j.
Depth(ls, i, j) ==
    IF j < i THEN 0
    ELSE Count(ls[j], "(") - Count(ls[j], ")") + Depth(ls, i, j - 1)

\* Lines i..i+n-1 are a debug call whose argument list spans n >= 2 lines with
\* balanced parentheses: it opens on a live line holding a debug statement, stays
\* open on every line but the last, and closes on the last.
SpansLines(i, n) ==
    /\ n >= 2
    /\ i + n - 1 <= Len(Lines)
    /\ ~CommentedLine(Lines[i])
    /\ DebugLine(Lines[i])
    /\ \A m \in i..(i + n - 2) : Depth(Lines, i, m) > 0
    /\ Depth(Lines, i, i + n - 1) = 0

\* The last line that goes with the call at lines i..i+n-1: the lone ";" after
\* it, if there is one.
CallEnd(i, n) ==
    IF i + n <= Len(Lines) /\ Trim(Lines[i + n]) = <<";">> THEN i + n ELSE i + n - 1

\* A line that is neither blank nor a debug statement.
Ordinary(line) == Trim(line) # <<>> /\ (CommentedLine(line) \/ ~DebugLine(line))

\* C2: when a debug call spans N lines with balanced parentheses (all other lines
\* being ordinary code), removeStatements deletes exactly those N lines and the
\* lone ";" line after them, and every other line is in the output.
C2_MultiLineExact ==
    pc = "fixed" =>
        \A i \in 1..Len(Lines) : \A n \in 2..Len(Lines) :
            ( /\ SpansLines(i, n)
              /\ \A j \in 1..Len(Lines) :
                    (j < i \/ j > CallEnd(i, n)) => Ordinary(Lines[j]) )
            => OutLines(fixed) = LinesWhere(LAMBDA j : j < i \/ j > CallEnd(i, n))

C4_KeepExclusive ==
    pc # "start" =>
        \A k \in 1..Len(matches) : \A m \in keep : matches[k].type # "console." \o m

\* timeEnd is kept and called on a live line while a call of time is matched.
C4_Witness ==
    /\ pc = "scanned"
    /\ "timeEnd" \in keep
    /\ \E i \in 1..Len(Lines) : KeptCall(Lines[i]) /\ ~CommentedLine(Lines[i])
    /\ \E k \in 1..Len(matches) : matches[k].type = "console.time"

\* C5: no match lies on a line the Comment Gate classifies as commented.
C5_CommentImmunity ==
    pc # "start" =>
        \A k \in 1..Len(matches) : ~CommentedLine(Lines[matches[k].line])

\* A commented line holds a debug statement and another line is matched.
C5_Witness ==
    /\ pc = "scanned"
    /\ matches # <<>>
    /\ \E i \in 1..Len(Lines) : CommentedLine(Lines[i]) /\ DebugLine(Lines[i])

C7_WholeLines == pc = "fixed" => IsSubseq(OutLines(fixed), Lines)

\* Some lines are removed, some are kept, and an indented line is among the kept.
C7_Witness ==
    /\ pc = "fixed"
    /\ Len(OutLines(fixed)) > 0
    /\ Len(OutLines(fixed)) < Len(Lines)
    /\ \E k \in 1..Len(OutLines(fixed)) :
          OutLines(fixed)[k] # Trim(OutLines(fixed)[k])

\* C8: the output holds no two consecutive blank (empty or whitespace-only) lines.
C8_BlankLineBound ==
    pc = "fixed" =>
        \A k \in 1..(Len(Split(fixed)) - 1) :
            ~(Trim(Split(fixed)[k]) = <<>> /\ Trim(Split(fixed)[k + 1]) = <<>>)

\* Two blank lines meet when the debug line between them is removed.
C8_Witness ==
    /\ pc = "fixed"
    /\ \E i \in 1..(Len(Lines) - 2) :
          /\ Trim(Lines[i]) = <<>>
          /\ DebugLine(Lines[i + 1]) /\ ~CommentedLine(Lines[i + 1])
          /\ Trim(Lines[i + 2]) = <<>>
    /\ Len(Split(fixed)) < Len(Lines) - 1

\* C9: the matches are in discovery order: of two matches the earlier one is on
\* a smaller line, or on the same line at a smaller column.
C9_DiscoveryOrder ==
    pc # "start" =>
        \A a \in 1..Len(matches) : \A b \in (a + 1)..Len(matches) :
            \/ matches[a].line < matches[b].line
            \/ (matches[a].line = matches[b].line /\ matches[a].column < matches[b].column)

\* C10: the kind of every match is console.<method of the vocabulary>, debugger
\* or alert.
C10_KindVocabulary ==
    pc # "start" =>
        \A k \in 1..Len(matches) :
            matches[k].type \in
                {"console." \o CONSOLE_METHODS[m] : m \in 1..Len(CONSOLE_METHODS)}
                    \cup {"debugger", "alert"}

====
